---- MODULE Spec2Model ----
(***************************************************************************)
(* Authentication and session core of the All-In-One PWA backend:          *)
(* registration with first-user admin bootstrap, login with mandatory      *)
(* TOTP, refresh-token rotation over the sessions table, logout, the       *)
(* request gate and the admin-only backup export; two-factor enrolment;    *)
(* and the secret store the process resolves its keys from at start.       *)
(*                                                                         *)
(* Every HTTP request runs in a request slot.  A handler that awaits the   *)
(* database or bcrypt between two statements is split at those awaits, so  *)
(* requests in different slots interleave exactly where the event loop     *)
(* lets them.  The clock is in whole seconds, the resolution of the iat    *)
(* and exp claims of a JSON Web Token.                                     *)
(***************************************************************************)
EXTENDS Integers, Sequences, FiniteSets, TLC

VARIABLES
  users,          \* rows of table users
  nextUserId,     \* AUTOINCREMENT counter of users.id
  sessions,       \* rows of table sessions
  nextSessionId,  \* AUTOINCREMENT counter of sessions.id
  now,            \* server clock, seconds
  ticks,          \* number of clock advances so far
  procs,          \* request slot -> request in flight or its response
  calls,          \* number of requests received so far
  issued,         \* token pairs handed to clients in responses
  rotated,        \* <<refresh token, device id>> of every refresh that succeeded
  loggedOut,      \* <<refresh token, device id>> of every logout that deleted a session
  regOk,          \* successful registrations answered so far
  regAdminOk,     \* of those, responses carrying isAdmin = true
  processEnv,     \* process.env: JWT_SECRET, JWT_REFRESH_SECRET, ENCRYPTION_KEY
  secretsFile,    \* /data/secrets.env on the persistent volume
  generated,      \* bundles drawn from crypto.randomBytes so far
  server,         \* the backend process and its last secret resolution
  callers,        \* processes resolving their secrets on the same volume
  client          \* the browser client: its two tokens and its apiRequest calls

\* The secret store: environment, secrets file and the process that read them.
secretVars == <<processEnv, secretsFile, generated, server, callers>>

\* Tables, clock and requests of the running server, and its client.
authVars == <<users, nextUserId, sessions, nextSessionId, now, ticks, procs,
              calls, issued, rotated, loggedOut, regOk, regAdminOk, client>>

vars == <<users, nextUserId, sessions, nextSessionId, now, ticks, procs,
          calls, issued, rotated, loggedOut, regOk, regAdminOk,
          processEnv, secretsFile, generated, server, callers, client>>

---------------------------------------------------------------------------
(* Bounds of the model *)

MaxProcs == 2
MaxTicks == 1
MaxSessions == 2
MaxCalls == 4
MaxResolutions == 3
MaxCallers == 2

Procs == 1..MaxProcs

---------------------------------------------------------------------------
(* Configuration (config/index.js) *)

jwtExpiration == 900
jwtRefreshExpiration == 604800
passwordMinLength == 24
bcryptRounds == 12
SessionDays == 7
SecondsPerDay == 86400
TotpStep == 30
TotpWindow == 2

\* const secrets = getOrGenerateSecrets(): the keys are those the process
\* resolved when it started.
config == server.config

(* Clock advances the model takes: one second and the refresh-token        *)
(* lifetime.                                                               *)
TickSteps == {1, jwtRefreshExpiration}

---------------------------------------------------------------------------
(* Password utilities (utils/password.js) *)

Digits == {"0", "1", "2", "3", "4", "5", "6", "7", "8", "9"}
Letters ==
  {"a", "b", "c", "d", "e", "f", "g", "h", "i", "j", "k", "l", "m",
   "n", "o", "p", "q", "r", "s", "t", "u", "v", "w", "x", "y", "z",
   "A", "B", "C", "D", "E", "F", "G", "H", "I", "J", "K", "L", "M",
   "N", "O", "P", "Q", "R", "S", "T", "U", "V", "W", "X", "Y", "Z"}
Specials ==
  {"!", "@", "#", "$", "%", "^", "&", "*", "(", ")", ",", ".", "?",
   "\"", ":", "{", "}", "|", "<", ">"}

HasChar(password, class) == \E i \in 1..Len(password) : password[i] \in class

\* validatePassword that checks the length only.
validatePassword_lengthOnly(password) ==
  IF Len(password) = 0 THEN "Password is required"
  ELSE IF Len(password) < passwordMinLength
    THEN "Password must be at least 24 characters long"
  ELSE ""

\* validatePassword: the error message, or "" when the password is valid.
validatePassword(password) ==
  IF Len(password) = 0 THEN "Password is required"
  ELSE IF Len(password) < passwordMinLength
    THEN "Password must be at least 24 characters long"
  ELSE IF ~HasChar(password, Digits)
    THEN "Password must contain at least one number"
  ELSE IF ~HasChar(password, Letters)
    THEN "Password must contain at least one letter"
  ELSE IF ~HasChar(password, Specials)
    THEN "Password must contain at least one special character"
  ELSE ""

\* bcrypt.hash: a salted one-way hash; all that is observable of it is which
\* password bcrypt.compare accepts against it.
hashPassword(password) == [alg |-> "bcrypt", rounds |-> bcryptRounds, of |-> password]

verifyPassword(password, hash) == hash.of = password

\* A password of n characters: a digit, a symbol, then letters.
MkPassword(n, letter) ==
  [i \in 1..n |-> IF i = 1 THEN "7" ELSE IF i = 2 THEN "!" ELSE letter]

PwGood == MkPassword(passwordMinLength, "a")
PwWrong == MkPassword(passwordMinLength, "b")
PwShort == MkPassword(passwordMinLength - 1, "a")

\* What clients submit: to /register a strong or a weak password, to the
\* other routes the account's password or another one.
RegisterPasswords == {PwGood, PwShort}
LoginPasswords == {PwGood, PwWrong}

---------------------------------------------------------------------------
(* JSON Web Tokens (utils/jwt.js).  jwt.sign over {userId} adds iat = now  *)
(* and exp = iat + expiresIn and appends an HMAC of header and payload      *)
(* under the key: the token is a function of (key, userId, iat).           *)

jwtSign(userId, key, expiresIn, clock) ==
  [userId |-> userId, iat |-> clock, exp |-> clock + expiresIn, sig |-> key]

\* jwt.verify: the signature is the key's and the clock is before exp.
jwtVerify(token, key, clock) == token.sig = key /\ clock < token.exp

generateAccessToken(userId, clock) ==
  jwtSign(userId, config.jwtSecret, jwtExpiration, clock)

generateRefreshToken(userId, clock) ==
  jwtSign(userId, config.jwtRefreshSecret, jwtRefreshExpiration, clock)

verifyAccessToken(token, clock) == jwtVerify(token, config.jwtSecret, clock)

verifyRefreshToken(token, clock) == jwtVerify(token, config.jwtRefreshSecret, clock)

\* A token signed by somebody who does not hold the server's keys.
ForgedToken ==
  [userId |-> 1, iat |-> 0, exp |-> 100000000,
   sig |-> [src |-> "forged", key |-> "JWT_SECRET", n |-> 0]]

---------------------------------------------------------------------------
(* TOTP (utils/2fa.js).  A code is the TOTP value of a secret at a 30 s    *)
(* time step; it is written as the pair it is computed from.               *)

Secrets == {"S1", "S2"}

NoCode == [secret |-> "", step |-> 0]

TotpAt(secret, clock) == [secret |-> secret, step |-> clock \div TotpStep]

\* speakeasy.totp.verify with window 2: the code of the secret at the
\* current step or at most two steps before or after it.
verifyToken(secret, code, clock) ==
  /\ code.secret = secret
  /\ code.step >= (clock \div TotpStep) - TotpWindow
  /\ code.step <= (clock \div TotpStep) + TotpWindow

---------------------------------------------------------------------------
(* Dates as the database sees them.  loginUser and refreshAccessToken      *)
(* store expires_at as Date.toISOString() text, 'YYYY-MM-DDTHH:MM:SS.sssZ'; *)
(* SQLite's datetime("now") is the text 'YYYY-MM-DD HH:MM:SS'.  The two    *)
(* are compared as text: date, then the separator character, then time.    *)

toISOString(t) == [day |-> t \div SecondsPerDay, sep |-> "T", sec |-> t % SecondsPerDay]

sqlDatetime(t) == [day |-> t \div SecondsPerDay, sep |-> " ", sec |-> t % SecondsPerDay]

CharCode(c) == IF c = "T" THEN 84 ELSE 32

TextGreater(a, b) ==
  \/ a.day > b.day
  \/ /\ a.day = b.day
     /\ \/ CharCode(a.sep) > CharCode(b.sep)
        \/ CharCode(a.sep) = CharCode(b.sep) /\ a.sec > b.sec

\* The instant a stored expires_at text denotes.
InstantOf(text) == text.day * SecondsPerDay + text.sec

\* new Date(); setDate(getDate() + 7)
addDays(t, days) == t + days * SecondsPerDay

---------------------------------------------------------------------------
(* Tables (database/init.js) *)

Usernames == {"alice", "bob"}
Emails == {"alice@x.io", "bob@x.io"}
Devices == {"d1", "d2"}

UserRow(id, username, email, password, secret, enabled, admin) ==
  [id |-> id, username |-> username, email |-> email,
   password_hash |-> hashPassword(password), two_factor_secret |-> secret,
   two_factor_enabled |-> enabled, is_admin |-> admin]

NoUser == UserRow(0, "", "", <<>>, "", 0, 0)

SessionRow(id, userId, deviceId, refreshToken, expiresAt) ==
  [id |-> id, user_id |-> userId, device_id |-> deviceId,
   refresh_token |-> refreshToken, expires_at |-> expiresAt]

(* The database file is kept on a persistent volume and opened with        *)
(* CREATE TABLE IF NOT EXISTS: the server starts on whatever rows the      *)
(* deployment already holds.  The model starts on an empty database or on  *)
(* one holding two enrolled users, an administrator and another.           *)
SeedAlice == UserRow(1, "alice", "alice@x.io", PwGood, "S1", 1, 1)
SeedBob == UserRow(2, "bob", "bob@x.io", PwGood, "S2", 1, 0)

SeedDatabases == {{}, {SeedAlice, SeedBob}}

\* db.get: the first row of a result set (lowest rowid), or none.
FirstRow(rows) == CHOOSE r \in rows : \A q \in rows : r.id <= q.id

---------------------------------------------------------------------------
(* Request slots *)

Idle == [pc |-> "idle", op |-> "none"]

\* A new request takes the lowest slot that holds no request in flight.
Free(p) ==
  /\ calls < MaxCalls
  /\ procs[p].pc \in {"idle", "done"}
  /\ \A q \in 1..(p - 1) : procs[q].pc \notin {"idle", "done"}

\* Slot p moves on to rec; a response left in another slot has been read.
Put(p, rec) ==
  [q \in Procs |-> IF q = p THEN rec
                   ELSE IF procs[q].pc = "done" THEN Idle ELSE procs[q]]

NoToken == [userId |-> 0, iat |-> 0, exp |-> 0, sig |-> [src |-> "unset", key |-> "", n |-> 0]]

TokenPair(accessToken, refreshToken) ==
  [accessToken |-> accessToken, refreshToken |-> refreshToken]

\* What a client can put in a request: a token it was handed, or a forgery.
AccessPresentable == {g.accessToken : g \in issued} \cup {ForgedToken}
RefreshPresentable == {g.refreshToken : g \in issued} \cup {ForgedToken}

---------------------------------------------------------------------------
(* Request gate (middleware/auth.js).  An Authorization header is absent   *)
(* or a number of space-separated words, the second of which is the token. *)

NoHeader == [set |-> FALSE, words |-> 0, token |-> NoToken]
Bearer(token) == [set |-> TRUE, words |-> 2, token |-> token]
BearerOnly == [set |-> TRUE, words |-> 1, token |-> NoToken]

Headers == {NoHeader, BearerOnly} \cup {Bearer(t) : t \in AccessPresentable}

\* authHeader && authHeader.split(' ')[1]
HeaderToken(header) ==
  IF header.set /\ header.words >= 2 THEN header.token ELSE NoToken

\* authenticateToken that lets a request through whose token does not verify.
authenticateToken_failOpen(header, clock) ==
  LET token == HeaderToken(header) IN
  IF token = NoToken
    THEN [status |-> 401, error |-> "Access token required", userId |-> 0]
  ELSE [status |-> 0, error |-> "", userId |-> token.userId]

\* status 0: next() was called with req.userId = userId.
authenticateToken(header, clock) ==
  LET token == HeaderToken(header) IN
  IF token = NoToken
    THEN [status |-> 401, error |-> "Access token required", userId |-> 0]
  ELSE IF ~verifyAccessToken(token, clock)
    THEN [status |-> 403, error |-> "Invalid or expired token", userId |-> 0]
  ELSE [status |-> 0, error |-> "", userId |-> token.userId]

---------------------------------------------------------------------------
(* The client's module state (frontend services/api.js): accessToken and   *)
(* refreshToken, null until a login, and its apiRequest calls in flight.   *)

NoRequest ==
  [pc |-> "idle", endpoint |-> "", expired |-> FALSE, refreshable |-> FALSE,
   status |-> 0, sent |-> NoToken, refreshStatus |-> 0,
   fresh |-> TokenPair(NoToken, NoToken), session |-> 0, expiresAt |-> toISOString(0),
   retryStatus |-> 0, result |-> ""]

\* let accessToken = null; let refreshToken = null
SignedOut ==
  [accessToken |-> NoToken, refreshToken |-> NoToken,
   reqs |-> [r \in Procs |-> NoRequest]]

---------------------------------------------------------------------------
(* Secret store (utils/secrets.js, config/index.js).  A secret value is    *)
(* written as where it came from; an unset variable or a missing file      *)
(* entry is Unset, which is falsy like undefined and ''.                   *)

Unset == [src |-> "unset", key |-> "", n |-> 0]

EnvValue(key) == [src |-> "env", key |-> key, n |-> 0]

FileValue(key) == [src |-> "file", key |-> key, n |-> 0]

\* crypto.randomBytes(length / 2).toString('hex'): draw n for one key.
generateSecret(key, n) == [src |-> "random", key |-> key, n |-> n]

KeyTriple(a, b, c) == [JWT_SECRET |-> a, JWT_REFRESH_SECRET |-> b, ENCRYPTION_KEY |-> c]

Bundle(a, b, c) == [jwtSecret |-> a, jwtRefreshSecret |-> b, encryptionKey |-> c]

NoEntries == KeyTriple(Unset, Unset, Unset)

NoBundle == Bundle(Unset, Unset, Unset)

\* process.env as the deployment sets it: each variable set or not.
Environments ==
  {KeyTriple(a, b, c) : a \in {Unset, EnvValue("JWT_SECRET")},
                        b \in {Unset, EnvValue("JWT_REFRESH_SECRET")},
                        c \in {Unset, EnvValue("ENCRYPTION_KEY")}}

\* /data/secrets.env: absent, or present with the key=value lines it holds.
SecretsFile(entries) == [exists |-> TRUE, entries |-> entries]

NoFile == [exists |-> FALSE, entries |-> NoEntries]

Files ==
  {NoFile} \cup
  {SecretsFile(KeyTriple(a, b, c)) : a \in {Unset, FileValue("JWT_SECRET")},
                                     b \in {Unset, FileValue("JWT_REFRESH_SECRET")},
                                     c \in {Unset, FileValue("ENCRYPTION_KEY")}}

\* What the file system does to a write: it succeeds, the open fails and
\* the file is as before, or the file is truncated and the write fails.
WriteOutcomes == {"ok", "EACCES", "ENOSPC"}

\* loadSecretsFromFile: null (no entries) when the file is absent, when
\* reading throws, or when no key=value line is found.
loadSecretsFromFile(file, readOk) ==
  IF ~file.exists THEN NoEntries
  ELSE IF ~readOk THEN NoEntries
  ELSE file.entries

\* saveSecretsToFile that logs a failed write and returns normally.
saveSecretsToFile_swallow(file, secrets, outcome) ==
  IF outcome = "ok"
    THEN [threw |-> FALSE,
          file |-> SecretsFile(KeyTriple(secrets.jwtSecret, secrets.jwtRefreshSecret,
                                         secrets.encryptionKey))]
  ELSE IF outcome = "EACCES" THEN [threw |-> FALSE, file |-> file]
  ELSE [threw |-> FALSE, file |-> SecretsFile(NoEntries)]

\* saveSecretsToFile: writes the three lines, or rethrows the error.
saveSecretsToFile(file, secrets, outcome) ==
  IF outcome = "ok"
    THEN [threw |-> FALSE,
          file |-> SecretsFile(KeyTriple(secrets.jwtSecret, secrets.jwtRefreshSecret,
                                         secrets.encryptionKey))]
  ELSE IF outcome = "EACCES" THEN [threw |-> TRUE, file |-> file]
  ELSE [threw |-> TRUE, file |-> SecretsFile(NoEntries)]

\* getOrGenerateSecrets that falls back key by key: environment value, else
\* file value.
getOrGenerateSecrets_perKey(env, file, readOk, outcome, n) ==
  LET fileSecrets == loadSecretsFromFile(file, readOk)
      pick(k) == IF env[k] # Unset THEN env[k] ELSE fileSecrets[k]
      merged == Bundle(pick("JWT_SECRET"), pick("JWT_REFRESH_SECRET"),
                       pick("ENCRYPTION_KEY"))
      newSecrets == Bundle(generateSecret("JWT_SECRET", n),
                           generateSecret("JWT_REFRESH_SECRET", n),
                           generateSecret("ENCRYPTION_KEY", n))
      saved == saveSecretsToFile(file, newSecrets, outcome)
  IN
  IF merged.jwtSecret # Unset /\ merged.jwtRefreshSecret # Unset
       /\ merged.encryptionKey # Unset
    THEN [source |-> "env", secrets |-> merged, file |-> file]
  ELSE IF saved.threw
    THEN [source |-> "threw", secrets |-> NoBundle, file |-> saved.file]
  ELSE [source |-> "generated", secrets |-> newSecrets, file |-> saved.file]

\* getOrGenerateSecrets: the bundle it returns and where it came from, or
\* the error it throws, and the secrets file afterwards.
getOrGenerateSecrets(env, file, readOk, outcome, n) ==
  LET envSecrets == Bundle(env.JWT_SECRET, env.JWT_REFRESH_SECRET, env.ENCRYPTION_KEY)
      fileSecrets == loadSecretsFromFile(file, readOk)
      newSecrets == Bundle(generateSecret("JWT_SECRET", n),
                           generateSecret("JWT_REFRESH_SECRET", n),
                           generateSecret("ENCRYPTION_KEY", n))
      saved == saveSecretsToFile(file, newSecrets, outcome)
  IN
  IF envSecrets.jwtSecret # Unset /\ envSecrets.jwtRefreshSecret # Unset
       /\ envSecrets.encryptionKey # Unset
    THEN [source |-> "env", secrets |-> envSecrets, file |-> file]
  ELSE IF fileSecrets.JWT_SECRET # Unset /\ fileSecrets.JWT_REFRESH_SECRET # Unset
            /\ fileSecrets.ENCRYPTION_KEY # Unset
    THEN [source |-> "file",
          secrets |-> Bundle(fileSecrets.JWT_SECRET, fileSecrets.JWT_REFRESH_SECRET,
                             fileSecrets.ENCRYPTION_KEY),
          file |-> file]
  ELSE IF saved.threw
    THEN [source |-> "threw", secrets |-> NoBundle, file |-> saved.file]
  ELSE [source |-> "generated", secrets |-> newSecrets, file |-> saved.file]

\* No secret resolution has run yet.
NoResolution ==
  [op |-> "none", readOk |-> TRUE, outcome |-> "ok", source |-> "none",
   secrets |-> NoBundle]

Stopped(n) == [state |-> "stopped", config |-> NoBundle, resolutions |-> n,
               last |-> NoResolution]

\* The deployment the server of the authentication model runs in: no
\* override in the environment, a complete secrets file, secrets loaded.
SeedFile ==
  SecretsFile(KeyTriple(FileValue("JWT_SECRET"), FileValue("JWT_REFRESH_SECRET"),
                        FileValue("ENCRYPTION_KEY")))

Serving ==
  [state |-> "running",
   config |-> Bundle(FileValue("JWT_SECRET"), FileValue("JWT_REFRESH_SECRET"),
                     FileValue("ENCRYPTION_KEY")),
   resolutions |-> 0, last |-> NoResolution]

\* A process that has not called getOrGenerateSecrets yet.
NotCalled == [pc |-> "start", source |-> "none", secrets |-> NoBundle, cursor |-> 0]

Callers == 1..MaxCallers

\* Tables, clock and request slots of a server that has just started.
AuthInit ==
  /\ client = SignedOut
  /\ sessions = {}
  /\ nextSessionId = 1
  /\ now = 0
  /\ ticks = 0
  /\ procs = [p \in Procs |-> Idle]
  /\ calls = 0
  /\ issued = {}
  /\ rotated = {}
  /\ loggedOut = {}
  /\ regOk = 0
  /\ regAdminOk = 0

\* config/index.js, required by server.js first: the process resolves its
\* secrets; if that throws the process dies before it listens.
StartServer(readOk, outcome) ==
  LET got == getOrGenerateSecrets(processEnv, secretsFile, readOk, outcome,
                                  generated + 1)
  IN
  /\ server.state \in {"stopped", "crashed"}
  /\ server.resolutions < MaxResolutions
  /\ secretsFile' = got.file
  /\ generated' = IF got.source \in {"generated", "threw"} THEN generated + 1
                  ELSE generated
  /\ server' = [state |-> IF got.source = "threw" THEN "crashed" ELSE "running",
                config |-> got.secrets,
                resolutions |-> server.resolutions + 1,
                last |-> [op |-> "start", readOk |-> readOk, outcome |-> outcome,
                          source |-> got.source, secrets |-> got.secrets]]
  /\ UNCHANGED <<processEnv, callers>>
  /\ UNCHANGED authVars

\* getSecretsForBackup in the running server (GET /backup): it resolves the
\* secrets again; an error thrown in the database callback ends the process.
BackupSecrets(readOk, outcome) ==
  LET got == getOrGenerateSecrets(processEnv, secretsFile, readOk, outcome,
                                  generated + 1)
  IN
  /\ server.state = "running"
  /\ server.resolutions < MaxResolutions
  /\ secretsFile' = got.file
  /\ generated' = IF got.source \in {"generated", "threw"} THEN generated + 1
                  ELSE generated
  /\ server' = [state |-> IF got.source = "threw" THEN "crashed" ELSE "running",
                config |-> IF got.source = "threw" THEN NoBundle ELSE server.config,
                resolutions |-> server.resolutions + 1,
                last |-> [op |-> "backup", readOk |-> readOk, outcome |-> outcome,
                          source |-> got.source, secrets |-> got.secrets]]
  /\ UNCHANGED <<processEnv, callers>>
  /\ UNCHANGED authVars

\* The process is stopped (container stop, redeploy).
StopServer ==
  /\ server.state = "running"
  /\ server' = [server EXCEPT !.state = "stopped", !.config = NoBundle]
  /\ UNCHANGED <<processEnv, secretsFile, generated, callers>>
  /\ UNCHANGED authVars

\* The deployment changes the environment of the next start.
SetEnvironment(env) ==
  /\ server.state \in {"stopped", "crashed"}
  /\ env # processEnv
  /\ processEnv' = env
  /\ UNCHANGED <<secretsFile, generated, server, callers>>
  /\ UNCHANGED authVars

SecretsInit ==
  /\ users = {}
  /\ nextUserId = 1
  /\ AuthInit
  /\ processEnv \in Environments
  /\ secretsFile \in Files
  /\ generated = 0
  /\ server = Stopped(0)
  /\ callers = [c \in Callers |-> NotCalled]

Start == \E readOk \in BOOLEAN, outcome \in WriteOutcomes : StartServer(readOk, outcome)

BackupCall == \E readOk \in BOOLEAN, outcome \in WriteOutcomes :
                BackupSecrets(readOk, outcome)

Redeploy == \E env \in Environments : SetEnvironment(env)

SecretsNext ==
  \/ Start
  \/ BackupCall
  \/ StopServer
  \/ Redeploy

SecretsSpec == SecretsInit /\ [][SecretsNext]_vars

---------------------------------------------------------------------------
(* Initial state *)

Init ==
  /\ users \in SeedDatabases
  /\ nextUserId = Cardinality(users) + 1
  /\ sessions = {}
  /\ nextSessionId = 1
  /\ now = 0
  /\ ticks = 0
  /\ procs = [p \in Procs |-> Idle]
  /\ calls = 0
  /\ issued = {}
  /\ rotated = {}
  /\ loggedOut = {}
  /\ regOk = 0
  /\ regAdminOk = 0
  /\ processEnv = NoEntries
  /\ secretsFile = SeedFile
  /\ generated = 0
  /\ server = Serving
  /\ callers = [c \in Callers |-> NotCalled]
  /\ client = SignedOut

Tick ==
  /\ ticks < MaxTicks
  /\ \E d \in TickSteps : now' = now + d
  /\ ticks' = ticks + 1
  /\ UNCHANGED <<users, nextUserId, sessions, nextSessionId, procs, calls,
                 issued, rotated, loggedOut, regOk, regAdminOk>>
  /\ UNCHANGED <<client, secretVars>>

---------------------------------------------------------------------------
(* registerUser (services/authService.js) behind POST /register            *)

\* hasAdmin that never finds an admin.
hasAdmin_never == FALSE

\* hasAdmin: SELECT COUNT(*) FROM users WHERE is_admin = 1, count > 0
hasAdmin == Cardinality({u \in users : u.is_admin = 1}) > 0

\* The call up to its first database answer: the password is validated and
\* hasAdmin is read; the INSERT waits for bcrypt.
RegisterCall(p, username, email, password) ==
  /\ Free(p)
  /\ calls' = calls + 1
  /\ IF validatePassword(password) # ""
       THEN procs' = Put(p,
              [pc |-> "done", op |-> "register", status |-> 500,
               error |-> validatePassword(password), isAdmin |-> FALSE,
               username |-> username, password |-> password])
       ELSE procs' = Put(p,
              [pc |-> "reg_insert", op |-> "register", username |-> username,
               email |-> email, password |-> password, isAdmin |-> ~hasAdmin])
  /\ UNCHANGED <<users, nextUserId, sessions, nextSessionId, now, ticks, issued,
                 rotated, loggedOut, regOk, regAdminOk>>
  /\ UNCHANGED <<client, secretVars>>

\* INSERT INTO users: username and email are UNIQUE.
RegisterInsert(p) ==
  LET r == procs[p] IN
  /\ r.pc = "reg_insert"
  /\ IF \E u \in users : u.username = r.username \/ u.email = r.email
       THEN /\ procs' = Put(p,
                 [pc |-> "done", op |-> "register", status |-> 500,
                  error |-> "Username or email already exists",
                  isAdmin |-> FALSE, username |-> r.username])
            /\ UNCHANGED <<users, nextUserId, regOk, regAdminOk>>
       ELSE /\ users' = users \cup
                 {UserRow(nextUserId, r.username, r.email, r.password, "", 0,
                          IF r.isAdmin THEN 1 ELSE 0)}
            /\ nextUserId' = nextUserId + 1
            /\ procs' = Put(p,
                 [pc |-> "done", op |-> "register", status |-> 201, error |-> "",
                  isAdmin |-> r.isAdmin, username |-> r.username])
            /\ regOk' = regOk + 1
            /\ regAdminOk' = regAdminOk + (IF r.isAdmin THEN 1 ELSE 0)
  /\ UNCHANGED calls
  /\ UNCHANGED <<sessions, nextSessionId, now, ticks, issued, rotated, loggedOut>>
  /\ UNCHANGED <<client, secretVars>>

---------------------------------------------------------------------------
(* loginUser (services/authService.js) behind POST /login                  *)

\* What a client can send as twoFactorCode: nothing, or the current code of
\* a secret.
Codes(clock) == {NoCode} \cup {TotpAt(s, clock) : s \in Secrets}

LoginIdentifiers == Usernames \cup {"alice@x.io"}

\* loginChecks without the rejection of a user whose 2FA is not enabled.
loginChecks_2faOptional(user, password, code, clock) ==
  IF user = NoUser THEN "Invalid username or password"
  ELSE IF ~verifyPassword(password, user.password_hash)
    THEN "Invalid username or password"
  ELSE IF user.two_factor_enabled = 1
    THEN IF code = NoCode THEN "2FA code required"
         ELSE IF ~verifyToken(user.two_factor_secret, code, clock)
           THEN "Invalid 2FA code"
         ELSE ""
  ELSE ""

\* loginChecks without the verification of the submitted code.
loginChecks_anyCode(user, password, code, clock) ==
  IF user = NoUser THEN "Invalid username or password"
  ELSE IF ~verifyPassword(password, user.password_hash)
    THEN "Invalid username or password"
  ELSE IF user.two_factor_enabled = 1
    THEN IF code = NoCode THEN "2FA code required" ELSE ""
  ELSE "2FA must be enabled. Please complete 2FA setup."

\* The checks of loginUser on the row it selected, in the code's order:
\* the rejection message, or "" when the login goes through.
loginChecks(user, password, code, clock) ==
  IF user = NoUser THEN "Invalid username or password"
  ELSE IF ~verifyPassword(password, user.password_hash)
    THEN "Invalid username or password"
  ELSE IF user.two_factor_enabled = 1
    THEN IF code = NoCode THEN "2FA code required"
         ELSE IF ~verifyToken(user.two_factor_secret, code, clock)
           THEN "Invalid 2FA code"
         ELSE ""
  ELSE "2FA must be enabled. Please complete 2FA setup."

LoginsInFlight == Cardinality({q \in Procs : procs[q].pc = "login_verify"})

\* SELECT * FROM users WHERE username = ? OR email = ?
LoginSelect(p, identifier, password, code, deviceId) ==
  LET matches == {u \in users : u.username = identifier \/ u.email = identifier}
      user == IF matches = {} THEN NoUser ELSE FirstRow(matches)
  IN
  /\ Free(p)
  /\ calls' = calls + 1
  /\ Cardinality(sessions) + LoginsInFlight < MaxSessions
  /\ procs' = Put(p,
       [pc |-> "login_verify", op |-> "login", user |-> user,
        password |-> password, code |-> code, deviceId |-> deviceId])
  /\ UNCHANGED <<users, nextUserId, sessions, nextSessionId, now, ticks, issued,
                 rotated, loggedOut, regOk, regAdminOk>>
  /\ UNCHANGED <<client, secretVars>>

\* After bcrypt.compare: the remaining checks, the two tokens, the INSERT
\* INTO sessions and the response.
LoginFinish(p) ==
  LET r == procs[p]
      error == loginChecks(r.user, r.password, r.code, now)
      accessToken == generateAccessToken(r.user.id, now)
      refreshToken == generateRefreshToken(r.user.id, now)
      expiresAt == addDays(now, SessionDays)
  IN
  /\ r.pc = "login_verify"
  /\ IF error # ""
       THEN /\ procs' = Put(p,
                 [pc |-> "done", op |-> "login", status |-> 401, error |-> error,
                  user |-> r.user, deviceId |-> r.deviceId,
                  accessToken |-> NoToken, refreshToken |-> NoToken])
            /\ UNCHANGED <<sessions, nextSessionId, issued>>
       ELSE /\ sessions' = sessions \cup
                 {SessionRow(nextSessionId, r.user.id, r.deviceId, refreshToken,
                             toISOString(expiresAt))}
            /\ nextSessionId' = nextSessionId + 1
            /\ issued' = issued \cup {TokenPair(accessToken, refreshToken)}
            /\ procs' = Put(p,
                 [pc |-> "done", op |-> "login", status |-> 200, error |-> "",
                  user |-> r.user, deviceId |-> r.deviceId,
                  accessToken |-> accessToken, refreshToken |-> refreshToken])
  /\ UNCHANGED calls
  /\ UNCHANGED <<users, nextUserId, now, ticks, rotated, loggedOut, regOk, regAdminOk>>
  /\ UNCHANGED <<client, secretVars>>

---------------------------------------------------------------------------
(* refreshAccessToken (services/authService.js) behind POST /refresh       *)

\* findActiveSession without the device_id condition.
findActiveSession_anyDevice(refreshToken, deviceId, clock) ==
  {s \in sessions : /\ s.refresh_token = refreshToken
                    /\ TextGreater(s.expires_at, sqlDatetime(clock))}

\* SELECT * FROM sessions WHERE refresh_token = ? AND device_id = ?
\*   AND expires_at > datetime("now")
findActiveSession(refreshToken, deviceId, clock) ==
  {s \in sessions : /\ s.refresh_token = refreshToken
                    /\ s.device_id = deviceId
                    /\ TextGreater(s.expires_at, sqlDatetime(clock))}

\* Whether a refresh call gets past its checks: the token verifies and the
\* SELECT returns a row.
refreshError(refreshToken, deviceId, clock) ==
  IF ~verifyRefreshToken(refreshToken, clock) THEN "Invalid refresh token"
  ELSE IF findActiveSession(refreshToken, deviceId, clock) = {}
    THEN "Invalid or expired refresh token"
  ELSE ""

\* The call up to the SELECT's callback, which signs the new pair and
\* queues the UPDATE.
RefreshSelect(p, refreshToken, deviceId) ==
  LET error == refreshError(refreshToken, deviceId, now)
      session == FirstRow(findActiveSession(refreshToken, deviceId, now))
  IN
  /\ Free(p)
  /\ calls' = calls + 1
  /\ IF error # ""
       THEN procs' = Put(p,
              [pc |-> "done", op |-> "refresh", status |-> 401, error |-> error,
               refreshToken |-> refreshToken, deviceId |-> deviceId,
               replay |-> <<refreshToken, deviceId>> \in rotated,
               afterLogout |-> <<refreshToken, deviceId>> \in loggedOut,
               raced |-> FALSE, newAccessToken |-> NoToken,
               newRefreshToken |-> NoToken])
       ELSE procs' = Put(p,
              [pc |-> "ref_update", op |-> "refresh",
               refreshToken |-> refreshToken, deviceId |-> deviceId,
               replay |-> <<refreshToken, deviceId>> \in rotated,
               afterLogout |-> <<refreshToken, deviceId>> \in loggedOut,
               session |-> session.id,
               newAccessToken |-> generateAccessToken(session.user_id, now),
               newRefreshToken |-> generateRefreshToken(session.user_id, now),
               expiresAt |-> toISOString(addDays(now, SessionDays))])
  /\ UNCHANGED <<users, nextUserId, sessions, nextSessionId, now, ticks, issued,
                 rotated, loggedOut, regOk, regAdminOk>>
  /\ UNCHANGED <<client, secretVars>>

\* UPDATE sessions SET refresh_token = ?, expires_at = ? WHERE id = ?
RefreshUpdate(p) ==
  LET r == procs[p] IN
  /\ r.pc = "ref_update"
  /\ sessions' = {IF s.id = r.session
                    THEN [s EXCEPT !.refresh_token = r.newRefreshToken,
                                   !.expires_at = r.expiresAt]
                    ELSE s : s \in sessions}
  /\ issued' = issued \cup {TokenPair(r.newAccessToken, r.newRefreshToken)}
  /\ rotated' = rotated \cup {<<r.refreshToken, r.deviceId>>}
  /\ procs' = Put(p,
       [pc |-> "done", op |-> "refresh", status |-> 200, error |-> "",
        refreshToken |-> r.refreshToken, deviceId |-> r.deviceId,
        replay |-> r.replay, afterLogout |-> r.afterLogout,
        raced |-> ~r.replay /\ <<r.refreshToken, r.deviceId>> \in rotated,
        newAccessToken |-> r.newAccessToken,
        newRefreshToken |-> r.newRefreshToken])
  /\ UNCHANGED calls
  /\ UNCHANGED <<users, nextUserId, nextSessionId, now, ticks, loggedOut,
                 regOk, regAdminOk>>
  /\ UNCHANGED <<client, secretVars>>

---------------------------------------------------------------------------
(* logout (services/authService.js) behind POST /logout, a gated route     *)

\* DELETE FROM sessions WHERE refresh_token = ? AND device_id = ?
Logout(p, header, refreshToken, deviceId) ==
  LET gate == authenticateToken(header, now)
      deleted == {s \in sessions : s.refresh_token = refreshToken
                                   /\ s.device_id = deviceId}
  IN
  /\ Free(p)
  /\ calls' = calls + 1
  /\ IF gate.status # 0
       THEN /\ procs' = Put(p,
                 [pc |-> "done", op |-> "logout", status |-> gate.status,
                  error |-> gate.error, header |-> header,
                  next |-> FALSE, userId |-> 0])
            /\ UNCHANGED <<sessions, loggedOut>>
       ELSE /\ sessions' = sessions \ deleted
            /\ loggedOut' = IF deleted = {} THEN loggedOut
                            ELSE loggedOut \cup {<<refreshToken, deviceId>>}
            /\ procs' = Put(p,
                 [pc |-> "done", op |-> "logout", status |-> 200, error |-> "",
                  header |-> header, next |-> TRUE,
                  userId |-> gate.userId])
  /\ UNCHANGED <<users, nextUserId, nextSessionId, now, ticks, issued, rotated,
                 regOk, regAdminOk>>
  /\ UNCHANGED <<client, secretVars>>

---------------------------------------------------------------------------
(* GET /backup (routes/auth.js), a gated route                             *)

NoSecrets == Bundle(Unset, Unset, Unset)

\* backupAllowed that only requires the user row to exist.
backupAllowed_anyUser(userId) == \E u \in users : u.id = userId

\* SELECT is_admin FROM users WHERE id = ?; if (!user || !user.is_admin) 403
backupAllowed(userId) ==
  \E u \in users : u.id = userId /\ u.is_admin # 0

\* getSecretsForBackup: the bundle getOrGenerateSecrets resolves.
getSecretsForBackup == config

Backup(p, header) ==
  LET gate == authenticateToken(header, now) IN
  /\ Free(p)
  /\ calls' = calls + 1
  /\ procs' = Put(p,
       IF gate.status # 0
         THEN [pc |-> "done", op |-> "backup", status |-> gate.status,
               error |-> gate.error, header |-> header,
               next |-> FALSE, userId |-> 0, secrets |-> NoSecrets]
       ELSE IF ~backupAllowed(gate.userId)
         THEN [pc |-> "done", op |-> "backup", status |-> 403,
               error |-> "Admin access required", header |-> header,
               next |-> TRUE, userId |-> gate.userId, secrets |-> NoSecrets]
       ELSE [pc |-> "done", op |-> "backup", status |-> 200, error |-> "",
             header |-> header, next |-> TRUE,
             userId |-> gate.userId, secrets |-> getSecretsForBackup])
  /\ UNCHANGED <<users, nextUserId, sessions, nextSessionId, now, ticks, issued,
                 rotated, loggedOut, regOk, regAdminOk>>
  /\ UNCHANGED <<client, secretVars>>

---------------------------------------------------------------------------
(* POST /2fa/setup-initial (routes/auth.js)                                *)

\* module.exports with a setup2FAInitial among the exported functions.
authServiceExports_withInitial ==
  {"registerUser", "loginUser", "setup2FA", "verifyAndEnable2FA",
   "refreshAccessToken", "logout", "setup2FAInitial"}

\* module.exports of services/authService.js
authServiceExports ==
  {"registerUser", "loginUser", "setup2FA", "verifyAndEnable2FA",
   "refreshAccessToken", "logout"}

\* The route calls authService.setup2FAInitial inside try/catch; calling a
\* property the module does not export throws a TypeError, which the catch
\* answers with status 401.
Setup2FAInitial(p, username, password) ==
  /\ Free(p)
  /\ calls' = calls + 1
  /\ procs' = Put(p,
       IF username = "" \/ Len(password) = 0
         THEN [pc |-> "done", op |-> "setup_initial", status |-> 400,
               error |-> "Username and password are required",
               username |-> username, password |-> password, secret |-> ""]
       ELSE IF "setup2FAInitial" \notin authServiceExports
         THEN [pc |-> "done", op |-> "setup_initial", status |-> 401,
               error |-> "authService.setup2FAInitial is not a function",
               username |-> username, password |-> password, secret |-> ""]
       ELSE [pc |-> "done", op |-> "setup_initial", status |-> 200, error |-> "",
             username |-> username, password |-> password, secret |-> "S1"])
  /\ UNCHANGED <<users, nextUserId, sessions, nextSessionId, now, ticks, issued,
                 rotated, loggedOut, regOk, regAdminOk>>
  /\ UNCHANGED <<client, secretVars>>

---------------------------------------------------------------------------
(* Specification *)

Register == \E p \in Procs, username \in Usernames, email \in Emails,
               password \in RegisterPasswords :
              RegisterCall(p, username, email, password)

RegisterDone == \E p \in Procs : RegisterInsert(p)

Login == \E p \in Procs, identifier \in LoginIdentifiers,
            password \in LoginPasswords, code \in Codes(now), deviceId \in Devices :
           LoginSelect(p, identifier, password, code, deviceId)

LoginDone == \E p \in Procs : LoginFinish(p)

Refresh == \E p \in Procs, refreshToken \in RefreshPresentable, deviceId \in Devices :
             RefreshSelect(p, refreshToken, deviceId)

RefreshDone == \E p \in Procs : RefreshUpdate(p)

LogoutReq == \E p \in Procs, header \in Headers, refreshToken \in RefreshPresentable,
                deviceId \in Devices :
               Logout(p, header, refreshToken, deviceId)

BackupReq == \E p \in Procs, header \in Headers : Backup(p, header)

SetupInitialReq == \E p \in Procs, username \in Usernames, password \in LoginPasswords :
                     Setup2FAInitial(p, username, password)

Next ==
  \/ Tick
  \/ Register
  \/ RegisterDone
  \/ Login
  \/ LoginDone
  \/ Refresh
  \/ RefreshDone
  \/ LogoutReq
  \/ BackupReq
  \/ SetupInitialReq

Spec == Init /\ [][Next]_vars

---------------------------------------------------------------------------
(* Two-factor enrolment: setup2FA and verifyAndEnable2FA                   *)
(* (services/authService.js) behind the gated routes POST /2fa/setup and   *)
(* POST /2fa/verify, and the routes POST /2fa/setup-initial and            *)
(* POST /2fa/verify-initial (routes/auth.js).                              *)

\* Secrets speakeasy.generateSecret can hand out; each is new to the table.
GeneratedSecrets == {"S3", "S4"}

AllSecrets == Secrets \cup GeneratedSecrets

\* What a client can send as a 2FA code: nothing, or the current code of a
\* secret some authenticator app holds, that is one a row stores.
EnrollCodes(clock) ==
  {NoCode} \cup
  {TotpAt(s, clock) : s \in {u.two_factor_secret : u \in users} \ {""}}

\* Secrets stored in a row or about to be stored by a call in flight.
SecretsInUse ==
  {u.two_factor_secret : u \in users} \cup
  {procs[q].secret : q \in {x \in Procs : procs[x].pc = "setup_update"}}

\* POST /2fa/setup up to the secret: the gate, SELECT username FROM users
\* WHERE id = ?, then generateSecret; the UPDATE follows the QR code.
Setup2FACall(p, header, secret) ==
  LET gate == authenticateToken(header, now)
      found == {u \in users : u.id = gate.userId}
  IN
  /\ Free(p)
  /\ secret \notin SecretsInUse
  /\ calls' = calls + 1
  /\ procs' = Put(p,
       IF gate.status # 0
         THEN [pc |-> "done", op |-> "setup", status |-> gate.status,
               error |-> gate.error, userId |-> 0, secret |-> ""]
       ELSE IF found = {}
         THEN [pc |-> "done", op |-> "setup", status |-> 500,
               error |-> "User not found", userId |-> gate.userId, secret |-> ""]
       ELSE [pc |-> "setup_update", op |-> "setup", userId |-> gate.userId,
             secret |-> secret])
  /\ UNCHANGED <<users, nextUserId, sessions, nextSessionId, now, ticks, issued,
                 rotated, loggedOut, regOk, regAdminOk>>
  /\ UNCHANGED <<client, secretVars>>

\* UPDATE users SET two_factor_secret = ? WHERE id = ?
Setup2FAUpdate(p) ==
  LET r == procs[p] IN
  /\ r.pc = "setup_update"
  /\ users' = {IF u.id = r.userId THEN [u EXCEPT !.two_factor_secret = r.secret]
               ELSE u : u \in users}
  /\ procs' = Put(p,
       [pc |-> "done", op |-> "setup", status |-> 200, error |-> "",
        userId |-> r.userId, secret |-> r.secret])
  /\ UNCHANGED <<nextUserId, sessions, nextSessionId, now, ticks, calls, issued,
                 rotated, loggedOut, regOk, regAdminOk>>
  /\ UNCHANGED <<client, secretVars>>

\* verifyAndEnable2FA that enables 2FA whatever the code.
verifyChecks_anyCode(user, code, clock) ==
  IF user = NoUser \/ user.two_factor_secret = ""
    THEN "2FA secret not found. Please setup 2FA first."
  ELSE ""

\* The checks of verifyAndEnable2FA on the row it selected: the rejection
\* message, or "" when 2FA is going to be enabled.
verifyChecks(user, code, clock) ==
  IF user = NoUser \/ user.two_factor_secret = ""
    THEN "2FA secret not found. Please setup 2FA first."
  ELSE IF ~verifyToken(user.two_factor_secret, code, clock)
    THEN "Invalid 2FA code"
  ELSE ""

\* POST /2fa/verify up to the UPDATE: the gate, the code is required,
\* SELECT two_factor_secret FROM users WHERE id = ?, verifyToken.
Verify2FACall(p, header, code) ==
  LET gate == authenticateToken(header, now)
      found == {u \in users : u.id = gate.userId}
      user == IF found = {} THEN NoUser ELSE FirstRow(found)
      error == verifyChecks(user, code, now)
  IN
  /\ Free(p)
  /\ calls' = calls + 1
  /\ procs' = Put(p,
       IF gate.status # 0
         THEN [pc |-> "done", op |-> "verify", status |-> gate.status,
               error |-> gate.error, userId |-> 0, code |-> code]
       ELSE IF code = NoCode
         THEN [pc |-> "done", op |-> "verify", status |-> 400,
               error |-> "2FA code is required", userId |-> gate.userId,
               code |-> code]
       ELSE IF error # ""
         THEN [pc |-> "done", op |-> "verify", status |-> 400, error |-> error,
               userId |-> gate.userId, code |-> code]
       ELSE [pc |-> "verify_update", op |-> "verify", userId |-> gate.userId,
             code |-> code])
  /\ UNCHANGED <<users, nextUserId, sessions, nextSessionId, now, ticks, issued,
                 rotated, loggedOut, regOk, regAdminOk>>
  /\ UNCHANGED <<client, secretVars>>

\* UPDATE users SET two_factor_enabled = 1 WHERE id = ?
Verify2FAUpdate(p) ==
  LET r == procs[p] IN
  /\ r.pc = "verify_update"
  /\ users' = {IF u.id = r.userId THEN [u EXCEPT !.two_factor_enabled = 1]
               ELSE u : u \in users}
  /\ procs' = Put(p,
       [pc |-> "done", op |-> "verify", status |-> 200, error |-> "",
        userId |-> r.userId, code |-> r.code])
  /\ UNCHANGED <<nextUserId, sessions, nextSessionId, now, ticks, calls, issued,
                 rotated, loggedOut, regOk, regAdminOk>>
  /\ UNCHANGED <<client, secretVars>>

\* POST /2fa/verify-initial: the body is checked, then the route calls
\* authService.verifyAndEnable2FAInitial, which the module does not export;
\* the TypeError is answered with status 400.
Verify2FAInitial(p, username, password, code) ==
  /\ Free(p)
  /\ calls' = calls + 1
  /\ procs' = Put(p,
       IF username = "" \/ Len(password) = 0 \/ code = NoCode
         THEN [pc |-> "done", op |-> "verify_initial", status |-> 400,
               error |-> "Username, password, and 2FA code are required",
               username |-> username, password |-> password, code |-> code]
       ELSE IF "verifyAndEnable2FAInitial" \notin authServiceExports
         THEN [pc |-> "done", op |-> "verify_initial", status |-> 400,
               error |-> "authService.verifyAndEnable2FAInitial is not a function",
               username |-> username, password |-> password, code |-> code]
       ELSE [pc |-> "done", op |-> "verify_initial", status |-> 200, error |-> "",
             username |-> username, password |-> password, code |-> code])
  /\ UNCHANGED <<users, nextUserId, sessions, nextSessionId, now, ticks, issued,
                 rotated, loggedOut, regOk, regAdminOk>>
  /\ UNCHANGED <<client, secretVars>>

\* Passwords validatePassword rejects: one character short, no digit, no
\* letter, no symbol, a symbol outside the punctuation set.
PwNoDigit == [i \in 1..passwordMinLength |-> IF i = 1 THEN "!" ELSE "a"]
PwNoLetter == [i \in 1..passwordMinLength |-> IF i = 1 THEN "!" ELSE "7"]
PwNoSymbol == [i \in 1..passwordMinLength |-> IF i = 1 THEN "7" ELSE "a"]
PwOtherSymbol ==
  [i \in 1..passwordMinLength |-> IF i = 1 THEN "7" ELSE IF i = 2 THEN "-" ELSE "a"]

WeakPasswords == {PwShort, PwNoDigit, PwNoLetter, PwNoSymbol, PwOtherSymbol}

AccountRegister == \E p \in Procs, username \in Usernames, email \in Emails,
                      password \in {PwGood} \cup WeakPasswords :
                     RegisterCall(p, username, email, password)

\* Registration of alice or bob under their own address.
EmailOf(username) == IF username = "alice" THEN "alice@x.io" ELSE "bob@x.io"

EnrollRegister == \E p \in Procs, username \in Usernames :
                    RegisterCall(p, username, EmailOf(username), PwGood)

EnrollLogin == \E p \in Procs, identifier \in Usernames, password \in LoginPasswords,
                  code \in EnrollCodes(now) :
                 LoginSelect(p, identifier, password, code, "d1")

Setup2FAReq == \E p \in Procs, header \in Headers, secret \in GeneratedSecrets :
                 Setup2FACall(p, header, secret)

Setup2FADone == \E p \in Procs : Setup2FAUpdate(p)

Verify2FAReq == \E p \in Procs, header \in Headers, code \in EnrollCodes(now) :
                  Verify2FACall(p, header, code)

Verify2FADone == \E p \in Procs : Verify2FAUpdate(p)

VerifyInitialReq == \E p \in Procs, username \in Usernames,
                       password \in LoginPasswords, code \in EnrollCodes(now) :
                      Verify2FAInitial(p, username, password, code)

\* The server with its registration, enrolment and login routes.
EnrollNext ==
  \/ EnrollRegister
  \/ RegisterDone
  \/ EnrollLogin
  \/ LoginDone
  \/ Setup2FAReq
  \/ Setup2FADone
  \/ Verify2FAReq
  \/ Verify2FADone
  \/ SetupInitialReq
  \/ VerifyInitialReq

EnrollSpec == Init /\ [][EnrollNext]_vars

\* Registration alone, with every kind of password.
RegisterNext ==
  \/ Tick
  \/ AccountRegister
  \/ RegisterDone

RegisterSpec == Init /\ [][RegisterNext]_vars

\* Registrations one after the other: a call starts when none is between
\* its hasAdmin read and its INSERT.
SerialRegister ==
  /\ \A q \in Procs : procs[q].pc # "reg_insert"
  /\ AccountRegister

SerialNext ==
  \/ Tick
  \/ SerialRegister
  \/ RegisterDone

SerialSpec == Init /\ [][SerialNext]_vars

---------------------------------------------------------------------------
(* The registration flow of the client (Register and Login components,     *)
(* services/api.js) against a new deployment: register, enrol, confirm,    *)
(* log in, each step once and with the account's own password.  Without a  *)
(* token the gated routes end at the gate, so their UPDATE steps are not   *)
(* steps of this flow.                                                     *)

LifecycleInit == Init /\ users = {}

\* handleRegister: authAPI.register(username, email, password)
FlowRegister ==
  /\ calls = 0
  /\ \E p \in Procs, username \in Usernames, email \in Emails :
       RegisterCall(p, username, email, PwGood)

\* handleRegister goes on with authAPI.setup2FA().
FlowEnroll ==
  \E q \in Procs :
    /\ procs[q].pc = "done" /\ procs[q].op = "register" /\ procs[q].status = 201
    /\ \E p \in Procs, header \in Headers, secret \in GeneratedSecrets :
         Setup2FACall(p, header, secret)

\* authAPI.setup2FAInitial(username, password)
FlowEnrollInitial ==
  \E q \in Procs :
    /\ procs[q].pc = "done" /\ procs[q].op = "register" /\ procs[q].status = 201
    /\ \E p \in Procs : Setup2FAInitial(p, procs[q].username, PwGood)

\* handleVerify2FA: authAPI.verify2FA(code), with the code of the secret the
\* enrolment returned.
FlowConfirm ==
  \E q \in Procs :
    /\ procs[q].pc = "done" /\ procs[q].op \in {"setup", "setup_initial"}
    /\ \E p \in Procs, header \in Headers :
         Verify2FACall(p, header, TotpAt(procs[q].secret, now))

\* authAPI.verify2FAInitial(username, password, code)
FlowConfirmInitial ==
  \E q \in Procs :
    /\ procs[q].pc = "done" /\ procs[q].op \in {"setup", "setup_initial"}
    /\ \E p \in Procs, u \in users :
         Verify2FAInitial(p, u.username, PwGood, TotpAt(procs[q].secret, now))

\* Login component: authAPI.login(username, password, twoFactorCode) with
\* the code of the secret the account's row stores.
FlowLogin ==
  \E q \in Procs :
    /\ procs[q].pc = "done" /\ procs[q].op \in {"verify", "verify_initial"}
    /\ \E p \in Procs, u \in users, deviceId \in Devices :
         LoginSelect(p, u.username, PwGood, TotpAt(u.two_factor_secret, now),
                     deviceId)

LifecycleNext ==
  \/ Tick
  \/ FlowRegister
  \/ RegisterDone
  \/ FlowEnroll
  \/ FlowEnrollInitial
  \/ FlowConfirm
  \/ FlowConfirmInitial
  \/ FlowLogin
  \/ LoginDone

LifecycleSpec == LifecycleInit /\ [][LifecycleNext]_vars

---------------------------------------------------------------------------
(* Claims *)

Admins == {u \in users : u.is_admin = 1}

\* No registerUser call is between its hasAdmin read and its INSERT.
RegistrationsSettled == \A p \in Procs : procs[p].pc # "reg_insert"

\* C1: once concurrent registrations on a database without an admin have all
\* been answered and at least one succeeded, exactly one user row has
\* is_admin = 1 and exactly one successful response carried isAdmin = true.
C1_ExactlyOneAdmin ==
  (RegistrationsSettled /\ regOk >= 1 /\ Cardinality(Admins) = regAdminOk)
    => (Cardinality(Admins) = 1 /\ regAdminOk = 1)

\* A request slot holding the response of a call to op.
Answered(p, op) == procs[p].pc = "done" /\ procs[p].op = op

\* C2: a refresh call made with a token and device id after a refresh with
\* the same token and device id succeeded is rejected.
C2_SingleUseRotation ==
  \A p \in Procs :
    (Answered(p, "refresh") /\ procs[p].replay) => procs[p].status = 401

\* C3: of two refresh calls with the same token and device id that overlap,
\* at most one succeeds: a call that was in flight while the other one
\* succeeded is rejected and gets no token pair.
C3_OneRaceWinner ==
  \A p \in Procs :
    (Answered(p, "refresh") /\ procs[p].raced)
      => (procs[p].status = 401 /\ procs[p].newRefreshToken = NoToken)


\* A login call in slot p gets its answer in this step.
LoginAnswers(p) == procs[p].pc = "login_verify" /\ procs'[p].pc = "done"

\* C4: a login whose selected user row has two_factor_enabled = 0 is
\* rejected whatever password and code were submitted: it issues no tokens
\* and creates no session row.
C4_NoLoginWithoutTotp ==
  [][\A p \in Procs :
       (LoginAnswers(p) /\ procs[p].user.two_factor_enabled = 0)
         => /\ procs'[p].status = 401
            /\ procs'[p].accessToken = NoToken
            /\ procs'[p].refreshToken = NoToken
            /\ sessions' = sessions
            /\ issued' = issued]_vars

\* A registered user with the right password and 2FA not enabled was refused.
C4_Witness ==
  \E p \in Procs :
    /\ Answered(p, "login")
    /\ procs[p].user # NoUser
    /\ procs[p].user.two_factor_enabled = 0
    /\ procs[p].error = "2FA must be enabled. Please complete 2FA setup."
    /\ procs[p].status = 401

\* The session rows of the next state whose id the table did not hold.
NewSessions == {s \in sessions' : \A x \in sessions : x.id # s.id}

\* The user was found, the password verified, TOTP was enabled and the code
\* verified.
FullyVerified(r, clock) ==
  /\ r.user \in users
  /\ r.user.password_hash.of = r.password
  /\ r.user.two_factor_enabled = 1
  /\ r.code.secret = r.user.two_factor_secret
  /\ r.code.step \in ((clock \div 30) - 2)..((clock \div 30) + 2)

\* C5: a session row is created only by a fully verified login, which adds
\* exactly one row (user id, device id, the refresh token of the response,
\* expiry seven days from now); a login that fails leaves the table as it is.
C5_SessionOnlyByLogin ==
  [][(NewSessions # {}
        => \E p \in Procs :
             /\ LoginAnswers(p)
             /\ procs'[p].status = 200
             /\ FullyVerified(procs[p], now))
     /\
     (\A q \in Procs :
        LoginAnswers(q) =>
          IF procs'[q].status = 200
            THEN /\ sessions \subseteq sessions'
                 /\ Cardinality(sessions') = Cardinality(sessions) + 1
                 /\ \E s \in NewSessions :
                      /\ NewSessions = {s}
                      /\ s.user_id = procs[q].user.id
                      /\ s.device_id = procs[q].deviceId
                      /\ s.refresh_token = procs'[q].refreshToken
                      /\ procs'[q].refreshToken # NoToken
                      /\ InstantOf(s.expires_at) = now + 7 * 86400
            ELSE sessions' = sessions)]_vars

\* A login succeeded and its session row is in the table.
C5_Witness ==
  \E p \in Procs :
    /\ Answered(p, "login")
    /\ procs[p].status = 200
    /\ \E s \in sessions : /\ s.refresh_token = procs[p].refreshToken
                           /\ s.device_id = procs[p].deviceId
                           /\ s.user_id = procs[p].user.id

\* C6: a refresh call made with the token and device id of a session after
\* a logout deleted that session is rejected.
C6_NoRefreshAfterLogout ==
  \A p \in Procs :
    (Answered(p, "refresh") /\ procs[p].afterLogout) => procs[p].status = 401


\* A refresh call arrives in slot p in this step.
RefreshArrives(p) ==
  /\ procs[p].pc \in {"idle", "done"}
  /\ calls' = calls + 1
  /\ procs'[p].op = "refresh"
  /\ procs'[p].pc \in {"ref_update", "done"}

\* The token is the server's refresh token and not expired, and a session
\* row holds exactly this token and device id and expires after now.
RefreshJustified(refreshToken, deviceId, clock) ==
  /\ refreshToken.sig = config.jwtRefreshSecret
  /\ clock < refreshToken.exp
  /\ \E s \in sessions : /\ s.refresh_token = refreshToken
                         /\ s.device_id = deviceId
                         /\ InstantOf(s.expires_at) > clock

\* C7: a refresh call gets past its checks only if the token verifies under
\* the refresh key and a session row matches the token, the device id and an
\* unexpired expires_at; otherwise it is answered with an error and without
\* tokens.  The checks change no session row.
C7_RefreshChecks ==
  [][\A p \in Procs :
       RefreshArrives(p) =>
         /\ sessions' = sessions
         /\ IF RefreshJustified(procs'[p].refreshToken, procs'[p].deviceId, now)
              THEN procs'[p].pc = "ref_update"
              ELSE /\ procs'[p].pc = "done"
                   /\ procs'[p].status = 401
                   /\ procs'[p].newAccessToken = NoToken
                   /\ procs'[p].newRefreshToken = NoToken]_vars

\* A refresh was refused for the device id alone: a session holds the token
\* on another device.
C7_Witness ==
  \E p \in Procs :
    /\ Answered(p, "refresh")
    /\ procs[p].status = 401
    /\ procs[p].error = "Invalid or expired refresh token"
    /\ \E s \in sessions : /\ s.refresh_token = procs[p].refreshToken
                           /\ s.device_id # procs[p].deviceId

\* A gated request arrives in slot p in this step.
GatedArrives(p) ==
  /\ procs[p].pc \in {"idle", "done"}
  /\ calls' = calls + 1
  /\ procs'[p].op \in {"backup", "logout"}

\* The second word of the Authorization header, if there is one.
BearerToken(header) == IF header.words >= 2 THEN header.token ELSE NoToken

C9_BackupAdminOnly ==
  \A p \in Procs :
    Answered(p, "backup") =>
      LET admin == \E u \in users : u.id = procs[p].userId /\ u.is_admin = 1 IN
      /\ procs[p].secrets # NoSecrets => (procs[p].next /\ admin)
      /\ procs[p].status = 200 => (procs[p].next /\ admin)
      /\ (procs[p].next /\ ~admin)
           => (procs[p].status = 403 /\ procs[p].secrets = NoSecrets)

\* An enrolled user who is no administrator passed the gate and was refused.
C9_Witness ==
  \E p \in Procs :
    /\ Answered(p, "backup")
    /\ procs[p].next
    /\ procs[p].status = 403
    /\ \E u \in users : u.id = procs[p].userId /\ u.is_admin = 0

\* C10: POST /2fa/setup-initial with the username and password of a
\* registered user whose 2FA is not enabled succeeds: it returns a secret,
\* which is stored on the user row, and two_factor_enabled stays 0.
C10_InitialEnrollSucceeds ==
  \A p \in Procs :
    (/\ Answered(p, "setup_initial")
     /\ \E u \in users : /\ u.username = procs[p].username
                         /\ u.password_hash.of = procs[p].password
                         /\ u.two_factor_enabled = 0)
      => /\ procs[p].status = 200
         /\ procs[p].secret # ""
         /\ \E u \in users : /\ u.username = procs[p].username
                             /\ u.two_factor_secret = procs[p].secret
                             /\ u.two_factor_enabled = 0

\* C11: a new deployment's first user who registers, enrols, confirms and
\* then logs in, each with the right password and code, is answered a
\* successful login and has two_factor_enabled = 1.
C11_LifecycleCompletes ==
  \A p \in Procs :
    Answered(p, "login")
      => /\ procs[p].status = 200
         /\ \E u \in users : u.id = procs[p].user.id /\ u.two_factor_enabled = 1

\* A request to POST /2fa/setup-initial is answered in slot p by this step.
SetupInitialArrives(p) ==
  /\ calls' = calls + 1
  /\ procs'[p] # procs[p]
  /\ procs'[p].pc = "done"
  /\ procs'[p].op = "setup_initial"

\* C12: POST /2fa/setup-initial called with the username and the correct
\* password of a user whose two_factor_enabled is 1 is refused and leaves
\* the users table, the stored secret included, unchanged.
C12_InitialEnrollRefusesEnabled ==
  [][\A p \in Procs :
       SetupInitialArrives(p) =>
         \A u \in users :
           (/\ u.username = procs'[p].username
            /\ u.two_factor_enabled = 1
            /\ verifyPassword(procs'[p].password, u.password_hash))
             => (procs'[p].status # 200 /\ procs'[p].secret = "" /\ users' = users)]_vars

C12_Witness ==
  \E p \in Procs, u \in users :
    /\ Answered(p, "setup_initial")
    /\ u.username = procs[p].username
    /\ u.two_factor_enabled = 1
    /\ verifyPassword(procs[p].password, u.password_hash)
    /\ procs[p].status = 401

\* A request to POST /2fa/verify reaches the gate in slot p by this step.
VerifyArrives(p) ==
  /\ calls' = calls + 1
  /\ procs'[p] # procs[p]
  /\ procs'[p].op = "verify"

\* The code does not verify against the secret stored for userId, or no
\* secret is stored.
CodeRejected(userId, code, clock) ==
  \A u \in users :
    u.id = userId =>
      (u.two_factor_secret = "" \/ ~verifyToken(u.two_factor_secret, code, clock))

\* C13: a confirmation (POST /2fa/verify past the gate) whose code does not
\* verify against the stored secret, or for which no secret is stored, is
\* answered with an error and leaves the users table unchanged.
C13_WrongCodeNoChange ==
  [][\A p \in Procs :
       (VerifyArrives(p) /\ CodeRejected(procs'[p].userId, procs'[p].code, now))
         => (/\ procs'[p].pc = "done"
             /\ procs'[p].status \in {400, 401, 403}
             /\ users' = users)]_vars

C13_Witness ==
  \E p \in Procs :
    /\ Answered(p, "verify")
    /\ procs[p].userId # 0
    /\ procs[p].code # NoCode
    /\ CodeRejected(procs[p].userId, procs[p].code, now)
    /\ procs[p].status = 400
    /\ procs[p].error = "Invalid 2FA code"

\* C14: when registrations do not overlap, the row a registration inserts
\* has is_admin = 1 if and only if no row had is_admin = 1 at the instant
\* of the insertion.
C14_AdminIffNoAdmin ==
  [][\A u \in users' :
       (\A x \in users : x.id # u.id)
         => (u.is_admin = 1 <=> Admins = {})]_vars

C14_Witness ==
  /\ regOk = 2
  /\ regAdminOk = 1
  /\ \E u, v \in users : u.id < v.id /\ u.is_admin = 1 /\ v.is_admin = 0

\* A password shorter than the minimum length or lacking a digit, a letter
\* or a symbol of the punctuation set.
Weak(password) ==
  \/ Len(password) < passwordMinLength
  \/ \A i \in 1..Len(password) : password[i] \notin Digits
  \/ \A i \in 1..Len(password) : password[i] \notin Letters
  \/ \A i \in 1..Len(password) : password[i] \notin Specials

ValidationReasons ==
  {"Password is required",
   "Password must be at least 24 characters long",
   "Password must contain at least one number",
   "Password must contain at least one letter",
   "Password must contain at least one special character"}

\* A request to POST /register reaches registerUser in slot p by this step.
RegisterArrives(p) ==
  /\ calls' = calls + 1
  /\ procs'[p] # procs[p]
  /\ procs'[p].op = "register"

\* C15: registerUser called with a weak password fails at once with a
\* validation reason; no row is inserted and the next registration still
\* finds the same admin state.
C15_WeakPasswordRejected ==
  [][\A p \in Procs :
       (RegisterArrives(p) /\ Weak(procs'[p].password))
         => (/\ procs'[p].pc = "done"
             /\ procs'[p].status # 201
             /\ procs'[p].error \in ValidationReasons
             /\ users' = users
             /\ nextUserId' = nextUserId
             /\ regOk' = regOk /\ regAdminOk' = regAdminOk)]_vars

C15_Witness ==
  \E p \in Procs :
    /\ Answered(p, "register")
    /\ procs[p].error = "Password must contain at least one special character"
    /\ procs[p].password = PwOtherSymbol

\* Why loginUser rejects the call r at time clock, for the three causes that
\* are to look alike.
LoginFailureCause(r, clock) ==
  IF r.user = NoUser THEN "unknown user"
  ELSE IF ~verifyPassword(r.password, r.user.password_hash) THEN "wrong password"
  ELSE IF /\ r.user.two_factor_enabled = 1
          /\ r.code # NoCode
          /\ ~verifyToken(r.user.two_factor_secret, r.code, clock)
    THEN "wrong code"
  ELSE "other"

\* C16: a login rejected for an unknown user, a wrong password or a wrong
\* TOTP code is answered with one and the same status and error, the one an
\* unknown username gets.
C16_LoginFailuresAlike ==
  [][\A p \in Procs :
       (LoginAnswers(p) /\ LoginFailureCause(procs[p], now) # "other")
         => (/\ procs'[p].status = 401
             /\ procs'[p].error = loginChecks(NoUser, procs[p].password,
                                              procs[p].code, now))]_vars

EnvFull(env) ==
  env.JWT_SECRET # Unset /\ env.JWT_REFRESH_SECRET # Unset /\ env.ENCRYPTION_KEY # Unset

FileFull(file) ==
  /\ file.exists
  /\ file.entries.JWT_SECRET # Unset
  /\ file.entries.JWT_REFRESH_SECRET # Unset
  /\ file.entries.ENCRYPTION_KEY # Unset

AsBundle(entries) ==
  Bundle(entries.JWT_SECRET, entries.JWT_REFRESH_SECRET, entries.ENCRYPTION_KEY)

\* This step is a call of getOrGenerateSecrets.
Resolves == server'.resolutions = server.resolutions + 1

\* The bundle holds three values drawn in this call and nothing else.
FreshBundle(secrets) ==
  /\ secrets.jwtSecret = [src |-> "random", key |-> "JWT_SECRET", n |-> generated']
  /\ secrets.jwtRefreshSecret =
       [src |-> "random", key |-> "JWT_REFRESH_SECRET", n |-> generated']
  /\ secrets.encryptionKey =
       [src |-> "random", key |-> "ENCRYPTION_KEY", n |-> generated']
  /\ generated' = generated + 1

C18_CreatedOnceReadOnly ==
  [][(Resolves /\ FileFull(secretsFile) /\ ~EnvFull(processEnv))
       => (/\ secretsFile' = secretsFile
           /\ server'.last.source # "threw"
                => server'.last.secrets = AsBundle(secretsFile.entries))]_vars

\* C19: when the secrets file exists and cannot be read, or nothing can be
\* parsed from it, and the environment does not supply the secrets, the
\* call fails and leaves the file as it was.
C19_UnreadableFileIsFatal ==
  [][(/\ Resolves
      /\ ~EnvFull(processEnv)
      /\ secretsFile.exists
      /\ (~server'.last.readOk \/ secretsFile.entries = NoEntries))
       => (/\ server'.last.source = "threw"
           /\ secretsFile' = secretsFile)]_vars

\* The call has to generate: neither the environment nor the file gives a
\* complete bundle.
MustGenerate ==
  /\ ~EnvFull(processEnv)
  /\ ~(FileFull(secretsFile) /\ server'.last.readOk)

\* C20: a generated bundle is returned only after it has been written to
\* the secrets file; when the write fails the call throws, returns no
\* bundle, and a process that was starting does not serve.
C20_NoEphemeralSecrets ==
  [][Resolves =>
       /\ server'.last.source = "generated"
            => (/\ secretsFile'.exists
                /\ AsBundle(secretsFile'.entries) = server'.last.secrets
                /\ server'.last.outcome = "ok")
       /\ (MustGenerate /\ server'.last.outcome # "ok")
            => (/\ server'.last.source = "threw"
                /\ server'.last.secrets = NoBundle
                /\ server'.state = "crashed"
                /\ server'.config = NoBundle)]_vars

C20_Witness ==
  /\ server.state = "crashed"
  /\ server.last.op = "start"
  /\ server.last.source = "threw"
  /\ server.last.outcome # "ok"
  /\ server.config = NoBundle

\* C22: the ledger lookup of refresh matches a session row only if the
\* instant its expires_at denotes is strictly later than the server clock:
\* for every row written by login or refresh and every clock value.
C22_LookupOnlyUnexpired ==
  \A s \in sessions :
    s \in findActiveSession(s.refresh_token, s.device_id, now)
      => InstantOf(s.expires_at) > now

\* C23: the ledger holds at most one session row per (user, device id).
C23_OneSessionPerDevice ==
  \A s, t \in sessions :
    (s.user_id = t.user_id /\ s.device_id = t.device_id) => s.id = t.id

---------------------------------------------------------------------------
(* Registration with any text as username: the route and registerUser     *)
(* check the password only, so a username may have the form of an address. *)

Identifiers == Usernames \cup Emails

IdentifierRegister == \E p \in Procs, username \in Identifiers, email \in Emails :
                        RegisterCall(p, username, email, PwGood)

IdentifierNext ==
  \/ IdentifierRegister
  \/ RegisterDone

IdentifierSpec == Init /\ [][IdentifierNext]_vars

\* C24: for every identifier at most one user row satisfies
\* username = identifier OR email = identifier.
C24_IdentifierUnambiguous ==
  \A identifier \in Identifiers :
    Cardinality({u \in users : u.username = identifier \/ u.email = identifier}) <= 1

\* This step is a getSecretsForBackup call of the running server.
BackupServed ==
  /\ server.state = "running"
  /\ server'.resolutions = server.resolutions + 1
  /\ server'.last.op = "backup"

\* C26: the backup export returns exactly the three values the running
\* process loaded when it started, and serving it neither creates nor
\* modifies the secrets file.
C26_BackupReturnsLoaded ==
  [][BackupServed => /\ server'.last.secrets = server.config
                     /\ secretsFile' = secretsFile]_vars

\* This step is the UPDATE of a verifyAndEnable2FA call for user id whose
\* code verifies against secret.
ConfirmedBy(id, secret) ==
  \E p \in Procs :
    /\ procs[p].pc = "verify_update"
    /\ procs[p].userId = id
    /\ procs'[p].pc = "done"
    /\ procs'[p].status = 200
    /\ verifyToken(secret, procs[p].code, now)

\* C27: a user row with two_factor_enabled = 1 holds a secret that a
\* successful verifyAndEnable2FA confirmed: a step leaves a row enabled
\* with a secret only if the row was enabled with that secret before, or
\* the step is the confirmation of that secret.  Enrolling again does not
\* put an unconfirmed secret on an enabled row.
C27_EnabledSecretConfirmed ==
  [][\A v \in users' :
       v.two_factor_enabled = 1
         => \/ \E u \in users : /\ u.id = v.id
                                /\ u.two_factor_enabled = 1
                                /\ u.two_factor_secret = v.two_factor_secret
            \/ ConfirmedBy(v.id, v.two_factor_secret)]_vars

---------------------------------------------------------------------------
(* The two token kinds under the keys of a deployment.  The environment   *)
(* holds whatever texts the operator wrote: EnvValue(k) under a variable   *)
(* other than k is the same text written for both.  The server starts,     *)
(* resolves its keys, and is then handed its own tokens on both routes.    *)

OperatorTexts == {EnvValue("JWT_SECRET"), EnvValue("JWT_REFRESH_SECRET")}

ChosenEnvironments ==
  {NoEntries} \cup
  {KeyTriple(a, b, EnvValue("ENCRYPTION_KEY")) : a \in OperatorTexts, b \in OperatorTexts}

TokenInit ==
  /\ users = {SeedAlice, SeedBob}
  /\ nextUserId = 3
  /\ AuthInit
  /\ processEnv \in ChosenEnvironments
  /\ secretsFile \in {NoFile, SeedFile}
  /\ generated = 0
  /\ server = Stopped(0)
  /\ callers = [c \in Callers |-> NotCalled]

TokenLogin ==
  /\ server.state = "running"
  /\ \E p \in Procs, code \in Codes(now) : LoginSelect(p, "alice", PwGood, code, "d1")

\* A token of an issued pair, of either kind, in the Authorization header
\* of a gated request.
TokenToGate ==
  /\ server.state = "running"
  /\ \E p \in Procs, g \in issued :
       \E token \in {g.accessToken, g.refreshToken} : Backup(p, Bearer(token))

\* A token of an issued pair, of either kind, in the body of POST /refresh.
TokenToRefresh ==
  /\ server.state = "running"
  /\ \E p \in Procs, g \in issued :
       \E token \in {g.accessToken, g.refreshToken} : RefreshSelect(p, token, "d1")

TokenNext ==
  \/ Start
  \/ TokenLogin
  \/ LoginDone
  \/ TokenToGate
  \/ TokenToRefresh
  \/ RefreshDone

TokenSpec == TokenInit /\ [][TokenNext]_vars

\* Tokens the server handed out as refresh tokens, and as access tokens.
RefreshTokens == {g.refreshToken : g \in issued}
AccessTokens == {g.accessToken : g \in issued}

\* C28: under every secrets bundle the process can have resolved, a token
\* issued as a refresh token never passes authenticateToken and a token
\* issued as an access token never passes the checks of refreshAccessToken.
C28_TokenKindsApart ==
  [][\A p \in Procs :
       /\ (GatedArrives(p)
           /\ BearerToken(procs'[p].header) \in RefreshTokens \ AccessTokens)
            => ~procs'[p].next
       /\ (RefreshArrives(p)
           /\ procs'[p].refreshToken \in AccessTokens \ RefreshTokens)
            => (procs'[p].pc = "done" /\ procs'[p].status = 401)]_vars

---------------------------------------------------------------------------
(* getOrGenerateSecrets called by several processes that share the /data   *)
(* volume (utils/secrets.js).  Within one process the call is synchronous; *)
(* between processes its file operations interleave.  fs.writeFileSync is  *)
(* open(O_CREAT | O_TRUNC) followed by write calls until every byte is     *)
(* written: after the open the file exists and is empty, and each write    *)
(* call adds the next part of the text, which may end between two lines or *)
(* inside a value.  The file is written in place, not renamed into place.  *)

\* A value of which only a first part is in the file.
Torn(value) == [src |-> "torn", key |-> value.key, n |-> value.n]

\* The three key=value lines of the text saveSecretsToFile writes, in order.
SecretLines(secrets) ==
  <<secrets.jwtSecret, secrets.jwtRefreshSecret, secrets.encryptionKey>>

\* The entries of the file after a write call of text that held `cursor`
\* lines before: lines cursor+1..upto are written whole and, if cut, the
\* first part of the value of line upto+1.
WriteChunk(entries, secrets, cursor, upto, cut) ==
  LET was == <<entries.JWT_SECRET, entries.JWT_REFRESH_SECRET, entries.ENCRYPTION_KEY>>
      line(i) == IF i > cursor /\ i <= upto THEN SecretLines(secrets)[i]
                 ELSE IF cut /\ i = upto + 1 THEN Torn(SecretLines(secrets)[i])
                 ELSE was[i]
  IN KeyTriple(line(1), line(2), line(3))

\* getOrGenerateSecrets up to its writeFileSync: the environment, then the
\* file as it is at this moment, else three new values.
RaceResolve(c) ==
  LET got == getOrGenerateSecrets(processEnv, secretsFile, TRUE, "ok", generated + 1) IN
  /\ callers[c].pc = "start"
  /\ IF got.source = "generated"
       THEN /\ callers' = [callers EXCEPT ![c] =
                 [pc |-> "open", source |-> "generated", secrets |-> got.secrets,
                  cursor |-> 0]]
            /\ generated' = generated + 1
       ELSE /\ callers' = [callers EXCEPT ![c] =
                 [pc |-> "done", source |-> got.source, secrets |-> got.secrets,
                  cursor |-> 0]]
            /\ UNCHANGED generated
  /\ UNCHANGED <<processEnv, secretsFile, server>>
  /\ UNCHANGED authVars

\* fs.writeFileSync, the open: the file is created or truncated.
RaceOpen(c) ==
  /\ callers[c].pc = "open"
  /\ secretsFile' = SecretsFile(NoEntries)
  /\ callers' = [callers EXCEPT ![c].pc = "write"]
  /\ UNCHANGED <<processEnv, generated, server>>
  /\ UNCHANGED authVars

\* fs.writeFileSync, one write call; after the last one the call returns
\* newSecrets.
RaceWrite(c, upto, cut) ==
  LET r == callers[c] IN
  /\ r.pc = "write"
  /\ upto > r.cursor
  /\ cut => upto < 3
  /\ secretsFile' = SecretsFile(WriteChunk(secretsFile.entries, r.secrets, r.cursor,
                                           upto, cut))
  /\ callers' = [callers EXCEPT ![c].cursor = upto,
                                ![c].pc = IF upto = 3 THEN "done" ELSE "write"]
  /\ UNCHANGED <<processEnv, generated, server>>
  /\ UNCHANGED authVars

\* First run of the deployment: no secrets file, no complete override.
RaceInit ==
  /\ users = {}
  /\ nextUserId = 1
  /\ AuthInit
  /\ processEnv \in {env \in Environments : env.JWT_SECRET = Unset}
  /\ secretsFile = NoFile
  /\ generated = 0
  /\ server = Stopped(0)
  /\ callers = [c \in Callers |-> NotCalled]

RaceCall == \E c \in Callers : RaceResolve(c)

RaceOpenFile == \E c \in Callers : RaceOpen(c)

RaceWriteFile == \E c \in Callers, upto \in 1..3, cut \in BOOLEAN : RaceWrite(c, upto, cut)

RaceNext ==
  \/ RaceCall
  \/ RaceOpenFile
  \/ RaceWriteFile

RaceSpec == RaceInit /\ [][RaceNext]_vars

\* The bundle of the n-th draw.
DrawnBundle(n) ==
  Bundle(generateSecret("JWT_SECRET", n), generateSecret("JWT_REFRESH_SECRET", n),
         generateSecret("ENCRYPTION_KEY", n))

\* C21: of callers that run getOrGenerateSecrets concurrently with no
\* secrets file, one that takes its bundle from the file takes a bundle
\* that was written whole, and once all have finished the file holds one
\* complete three-entry bundle.
C21_NoPartialFileAccepted ==
  /\ \A c \in Callers :
       (callers[c].pc = "done" /\ callers[c].source = "file")
         => \E n \in 1..generated : callers[c].secrets = DrawnBundle(n)
  /\ (\A c \in Callers : callers[c].pc = "done")
       => \E n \in 1..generated :
            secretsFile = SecretsFile(KeyTriple(DrawnBundle(n).jwtSecret,
                                                DrawnBundle(n).jwtRefreshSecret,
                                                DrawnBundle(n).encryptionKey))

---------------------------------------------------------------------------
(* The client (frontend services/api.js) against the server.  The client  *)
(* has logged in as alice on device d1 and holds the pair it was handed.   *)
(* Its apiRequest calls overlap: each awaits its fetch, the refresh and    *)
(* the retried fetch, and is split at those awaits.  The endpoints are     *)
(* GET /auth/backup, a gated route, and POST /auth/login with a wrong      *)
(* password, which loginUser answers 401.                                  *)

Endpoints == {"/auth/backup", "/auth/login"}

ClientDevice == "d1"

\* The status the server answers a fetch of the endpoint with, given the
\* access token the client put in the Authorization header (null: none).
Respond(endpoint, accessToken, clock) ==
  IF endpoint = "/auth/login"
    THEN LET matches == {u \in users : u.username = "alice" \/ u.email = "alice"}
             user == IF matches = {} THEN NoUser ELSE FirstRow(matches)
         IN IF loginChecks(user, PwWrong, NoCode, clock) = "" THEN 200 ELSE 401
  ELSE LET gate == authenticateToken(IF accessToken = NoToken THEN NoHeader
                                     ELSE Bearer(accessToken), clock)
       IN IF gate.status # 0 THEN gate.status
          ELSE IF ~backupAllowed(gate.userId) THEN 403
          ELSE 200

\* apiRequest up to the answer of its first fetch.
ApiRequest(r, endpoint) ==
  /\ client.reqs[r].pc \in {"idle", "done"}
  /\ calls < MaxCalls
  /\ calls' = calls + 1
  /\ client' = [client EXCEPT !.reqs[r] =
       [NoRequest EXCEPT
          !.pc = "fetched",
          !.endpoint = endpoint,
          !.expired = /\ client.accessToken # NoToken
                      /\ client.accessToken.sig = config.jwtSecret
                      /\ client.accessToken.exp <= now,
          !.refreshable = /\ client.refreshToken # NoToken
                          /\ refreshError(client.refreshToken, ClientDevice, now) = "",
          !.status = Respond(endpoint, client.accessToken, now)]]
  /\ UNCHANGED <<users, nextUserId, sessions, nextSessionId, now, ticks, procs,
                 issued, rotated, loggedOut, regOk, regAdminOk>>
  /\ UNCHANGED secretVars

\* The first response is back.  On 401 with a refresh token stored,
\* refreshAccessToken posts the stored refresh token to /auth/refresh;
\* otherwise handleResponse returns the data or throws.
ApiResponse(r) ==
  LET q == client.reqs[r] IN
  /\ q.pc = "fetched"
  /\ client' = [client EXCEPT !.reqs[r] =
       IF q.status = 401 /\ client.refreshToken # NoToken
         THEN [q EXCEPT !.pc = "refresh_sent", !.sent = client.refreshToken]
       ELSE [q EXCEPT !.pc = "done",
                      !.result = IF q.status = 200 THEN "ok" ELSE "error"]]
  /\ UNCHANGED <<users, nextUserId, sessions, nextSessionId, now, ticks, procs,
                 calls, issued, rotated, loggedOut, regOk, regAdminOk>>
  /\ UNCHANGED secretVars

\* POST /auth/refresh at the server, up to the SELECT's callback.
ServeRefreshSelect(r) ==
  LET q == client.reqs[r]
      error == refreshError(q.sent, ClientDevice, now)
      session == FirstRow(findActiveSession(q.sent, ClientDevice, now))
  IN
  /\ q.pc = "refresh_sent"
  /\ client' = [client EXCEPT !.reqs[r] =
       IF error # ""
         THEN [q EXCEPT !.pc = "refresh_answered", !.refreshStatus = 401]
       ELSE [q EXCEPT !.pc = "refresh_update",
                      !.session = session.id,
                      !.fresh = TokenPair(generateAccessToken(session.user_id, now),
                                          generateRefreshToken(session.user_id, now)),
                      !.expiresAt = toISOString(addDays(now, SessionDays))]]
  /\ UNCHANGED <<users, nextUserId, sessions, nextSessionId, now, ticks, procs,
                 calls, issued, rotated, loggedOut, regOk, regAdminOk>>
  /\ UNCHANGED secretVars

\* UPDATE sessions SET refresh_token = ?, expires_at = ? WHERE id = ?, and
\* the response with the new pair.
ServeRefreshUpdate(r) ==
  LET q == client.reqs[r] IN
  /\ q.pc = "refresh_update"
  /\ sessions' = {IF s.id = q.session
                    THEN [s EXCEPT !.refresh_token = q.fresh.refreshToken,
                                   !.expires_at = q.expiresAt]
                    ELSE s : s \in sessions}
  /\ issued' = issued \cup {q.fresh}
  /\ rotated' = rotated \cup {<<q.sent, ClientDevice>>}
  /\ client' = [client EXCEPT !.reqs[r] =
       [q EXCEPT !.pc = "refresh_answered", !.refreshStatus = 200]]
  /\ UNCHANGED <<users, nextUserId, nextSessionId, now, ticks, procs, calls,
                 loggedOut, regOk, regAdminOk>>
  /\ UNCHANGED secretVars

\* refreshAccessToken after its fetch.  Response ok: setTokens, and
\* apiRequest retries the request with the new access token.  Otherwise:
\* clearTokens, null is returned and handleResponse throws on the first
\* response.
ApiRefreshed(r) ==
  LET q == client.reqs[r] IN
  /\ q.pc = "refresh_answered"
  /\ client' =
       IF q.refreshStatus = 200
         THEN [accessToken |-> q.fresh.accessToken,
               refreshToken |-> q.fresh.refreshToken,
               reqs |-> [client.reqs EXCEPT ![r] =
                  [q EXCEPT !.pc = "retried",
                            !.retryStatus = Respond(q.endpoint, q.fresh.accessToken, now)]]]
       ELSE [accessToken |-> NoToken,
             refreshToken |-> NoToken,
             reqs |-> [client.reqs EXCEPT ![r] =
                [q EXCEPT !.pc = "done", !.result = "error"]]]
  /\ UNCHANGED <<users, nextUserId, sessions, nextSessionId, now, ticks, procs,
                 calls, issued, rotated, loggedOut, regOk, regAdminOk>>
  /\ UNCHANGED secretVars

\* The retried response is back: handleResponse returns the data, or it
\* throws and the catch around the refresh clears the tokens.
ApiRetried(r) ==
  LET q == client.reqs[r] IN
  /\ q.pc = "retried"
  /\ client' =
       IF q.retryStatus = 200
         THEN [client EXCEPT !.reqs[r] = [q EXCEPT !.pc = "done", !.result = "ok"]]
       ELSE [accessToken |-> NoToken,
             refreshToken |-> NoToken,
             reqs |-> [client.reqs EXCEPT ![r] =
                [q EXCEPT !.pc = "done", !.result = "expired"]]]
  /\ UNCHANGED <<users, nextUserId, sessions, nextSessionId, now, ticks, procs,
                 calls, issued, rotated, loggedOut, regOk, regAdminOk>>
  /\ UNCHANGED secretVars

\* Time passes at the client: a second, or the lifetime of an access token.
ClientTick ==
  /\ ticks < MaxTicks
  /\ \E d \in {1, jwtExpiration} : now' = now + d
  /\ ticks' = ticks + 1
  /\ UNCHANGED <<users, nextUserId, sessions, nextSessionId, procs, calls,
                 issued, rotated, loggedOut, regOk, regAdminOk, client>>
  /\ UNCHANGED secretVars

\* After authAPI.login of alice at second 0: the session row loginUser
\* inserted and the pair setTokens stored.
ClientInit ==
  /\ processEnv = NoEntries
  /\ secretsFile = SeedFile
  /\ generated = 0
  /\ server = Serving
  /\ callers = [c \in Callers |-> NotCalled]
  /\ users = {SeedAlice, SeedBob}
  /\ nextUserId = 3
  /\ sessions = {SessionRow(1, 1, ClientDevice, generateRefreshToken(1, 0),
                            toISOString(addDays(0, SessionDays)))}
  /\ nextSessionId = 2
  /\ now = 0
  /\ ticks = 0
  /\ procs = [p \in Procs |-> Idle]
  /\ calls = 0
  /\ issued = {TokenPair(generateAccessToken(1, 0), generateRefreshToken(1, 0))}
  /\ rotated = {}
  /\ loggedOut = {}
  /\ regOk = 0
  /\ regAdminOk = 0
  /\ client = [accessToken |-> generateAccessToken(1, 0),
               refreshToken |-> generateRefreshToken(1, 0),
               reqs |-> [r \in Procs |-> NoRequest]]

ApiCall == \E r \in Procs, endpoint \in Endpoints : ApiRequest(r, endpoint)

ApiAnswered == \E r \in Procs : ApiResponse(r)

RefreshServed == \E r \in Procs : ServeRefreshSelect(r)

RefreshRotated == \E r \in Procs : ServeRefreshUpdate(r)

ApiRefresh == \E r \in Procs : ApiRefreshed(r)

ApiRetry == \E r \in Procs : ApiRetried(r)

ClientNext ==
  \/ ClientTick
  \/ ApiCall
  \/ ApiAnswered
  \/ RefreshServed
  \/ RefreshRotated
  \/ ApiRefresh
  \/ ApiRetry

ClientSpec == ClientInit /\ [][ClientNext]_vars

\* C25: an apiRequest to a gated route made while the stored access token
\* has expired and the stored refresh token is still valid ends with the
\* data of the route: the client refreshes and retries, no new login.
C25_ExpiredAccessRecovers ==
  \A r \in Procs :
    LET q == client.reqs[r] IN
    (q.pc = "done" /\ q.endpoint = "/auth/backup" /\ q.expired /\ q.refreshable)
      => q.result = "ok"

\* C29: apiRequest clears the stored tokens only when the refresh attempt
\* itself failed: a step that clears them is the handling of a rejected
\* refresh; after a refresh that succeeded the new pair stays stored
\* whatever the retried request is answered.
C29_ClearOnlyOnFailedRefresh ==
  [][(client.refreshToken # NoToken /\ client'.refreshToken = NoToken)
       => \E r \in Procs : /\ client.reqs[r].pc = "refresh_answered"
                           /\ client.reqs[r].refreshStatus # 200
                           /\ client'.reqs[r].pc = "done"]_vars

\* Both calls went through a refresh with the same refresh token, and no
\* token was cleared because of a retried request.
BothRefreshed ==
  /\ \A r \in Procs : /\ client.reqs[r].pc \in {"retried", "done"}
                      /\ client.reqs[r].sent # NoToken
                      /\ client.reqs[r].result # "expired"
  /\ \A r, t \in Procs : client.reqs[r].sent = client.reqs[t].sent

\* C30: after two overlapping apiRequest calls that both got 401 and both
\* refreshed with the same valid refresh token, the client holds a token
\* pair and its refresh token is the one in the server's session row.
C30_OverlappingRefreshKeepsTokens ==
  BothRefreshed
    => /\ client.accessToken # NoToken
       /\ client.refreshToken # NoToken
       /\ \E s \in sessions : /\ s.refresh_token = client.refreshToken
                              /\ s.device_id = ClientDevice

====
